---- MODULE Spec2Model ----
(***************************************************************************)
(* Model of gwr-timetable/scripts/onnx-to-gwr-timetable-yaml.py: the       *)
(* lowering of an ONNX graph to a gwr timetable.  One behaviour is one run *)
(* of main(): the graph and the platform configuration are chosen in Init, *)
(* and the actions follow onnx_to_gwr_timetable through _collect_tensors,  *)
(* _layout_tensors and the per-node lowering loop.                         *)
(*                                                                         *)
(* Python values are modelled as follows.  Optional[T] is a sequence of    *)
(* length 0 (None) or 1 (the value).  A dict is the sequence of its items  *)
(* in insertion order (Python dicts keep insertion order, and assigning to *)
(* an existing key keeps the key's position).  Strings are TLA+ strings    *)
(* and f-strings are concatenations.                                       *)
(***************************************************************************)
EXTENDS Integers, Sequences, FiniteSets, TLC

(***************************************************************************)
(* Optional values                                                         *)
(***************************************************************************)
None == <<>>
Some(v) == <<v>>
IsNone(o) == o = <<>>
Unwrap(o) == o[1]

(***************************************************************************)
(* onnx.TensorProto element types used by the script                       *)
(***************************************************************************)
FLOAT == 1
UINT8 == 2
INT8 == 3
INT64 == 7
FLOAT16 == 10

\* DEFAULT_SRAM_BYTES
DEFAULT_SRAM_BYTES == 1048576

\* the 64-byte alignment of _layout_tensors
ALIGN_BYTES == 64

\* _DTYPE_SIZES.get(dtype, 4)
DtypeSize(dtype) ==
    CASE dtype = 1 -> 4
      [] dtype = 2 -> 1
      [] dtype = 3 -> 1
      [] dtype = 4 -> 2
      [] dtype = 5 -> 2
      [] dtype = 6 -> 4
      [] dtype = 7 -> 8
      [] dtype = 9 -> 1
      [] dtype = 10 -> 2
      [] dtype = 11 -> 8
      [] dtype = 12 -> 4
      [] dtype = 13 -> 8
      [] dtype = 14 -> 8
      [] dtype = 15 -> 16
      [] dtype = 16 -> 2
      [] OTHER -> 4

\* _dtype_to_string
DtypeToString(dtype) ==
    CASE dtype = 1 -> "fp32"
      [] dtype = 10 -> "fp16"
      [] dtype = 16 -> "bf16"
      [] dtype = 11 -> "fp64"
      [] dtype = 3 -> "int8"
      [] dtype = 5 -> "int16"
      [] dtype = 6 -> "int32"
      [] dtype = 7 -> "int64"
      [] dtype = 2 -> "uint8"
      [] dtype = 4 -> "uint16"
      [] dtype = 12 -> "uint32"
      [] dtype = 13 -> "uint64"
      [] dtype = 9 -> "bool"
      [] OTHER -> "fp32"

\* _map_onnx_op_to_gwr_op, on the operation kinds the model's graphs use
MapOnnxOpToGwrOp(op_type) ==
    IF op_type \in {"MatMul", "Conv", "Relu", "Sigmoid", "Tanh",
                    "BatchNormalization", "MaxPool", "AveragePool", "Flatten",
                    "Reshape", "Transpose", "Concat", "Softmax", "Gemm", "Cast",
                    "Constant", "Gather", "GroupQueryAttention", "MatMulNBits",
                    "QMoE", "ReduceSum", "Shape", "SimplifiedLayerNormalization",
                    "SkipSimplifiedLayerNormalization"}
    THEN "mul"
    ELSE "add"

\* _get_tensor_num_elements: a dimension that is None or <= 0 counts as 1
RECURSIVE GetTensorNumElements(_)
GetTensorNumElements(shape) ==
    IF shape = <<>> THEN 1
    ELSE LET dim == shape[Len(shape)]
             rest == GetTensorNumElements(SubSeq(shape, 1, Len(shape) - 1))
         IN IF IsNone(dim) \/ Unwrap(dim) <= 0 THEN rest * 1
            ELSE rest * Unwrap(dim)

\* _get_tensor_size_bytes
GetTensorSizeBytes(shape, dtype) ==
    GetTensorNumElements(shape) * DtypeSize(dtype)

(***************************************************************************)
(* A type proto is [has_tensor_type, has_shape, dim, has_elem_type,        *)
(* elem_type]; a dim of its shape is Some(dim_value) or None (dim_param or *)
(* nothing set).                                                           *)
(***************************************************************************)
\* _shape_from_type_proto
ShapeFromTypeProto(type_proto) ==
    IF ~type_proto.has_tensor_type THEN None
    ELSE IF ~type_proto.has_shape THEN None
    ELSE Some(type_proto.dim)

\* _dtype_from_type_proto
DtypeFromTypeProto(type_proto) ==
    IF ~type_proto.has_tensor_type THEN None
    ELSE IF ~type_proto.has_elem_type THEN None
    ELSE Some(type_proto.elem_type)

(***************************************************************************)
(* Dicts as item sequences                                                 *)
(***************************************************************************)
DictHas(d, k) == \E i \in 1..Len(d) : d[i].key = k
DictIndex(d, k) == CHOOSE i \in 1..Len(d) : d[i].key = k
DictGet(d, k) == d[DictIndex(d, k)].val
DictPut(d, k, v) ==
    IF DictHas(d, k)
    THEN [d EXCEPT ![DictIndex(d, k)] = [key |-> k, val |-> v]]
    ELSE Append(d, [key |-> k, val |-> v])
DictKeys(d) == [i \in 1..Len(d) |-> d[i].key]

(***************************************************************************)
(* _collect_tensors.  graph is [value_info, input, output, initializer,    *)
(* node]; a value info is [name, type], an initializer [name, dims,        *)
(* data_type] (a TensorProto always has both attributes), a node [name,    *)
(* op_type, input, output].  A tensor record is [shape, dtype, size_bytes].*)
(***************************************************************************)
\* initializer_map.get(name): the dict comprehension keeps the last
\* initializer of each name
InitializerMapGet(graph, name) ==
    LET hits == {i \in 1..Len(graph.initializer) : graph.initializer[i].name = name}
    IN IF hits = {} THEN None
       ELSE Some(graph.initializer[CHOOSE i \in hits : \A j \in hits : j <= i])

\* the record of one value_info / graph input / graph output
DeclaredRecord(graph, vi) ==
    LET shape0 == ShapeFromTypeProto(vi.type)
        dtype0 == DtypeFromTypeProto(vi.type)
        init == InitializerMapGet(graph, vi.name)
        shape1 == IF IsNone(shape0) /\ ~IsNone(init)
                  THEN Some(Unwrap(init).dims) ELSE shape0
        dtype1 == IF IsNone(dtype0) /\ ~IsNone(init)
                  THEN Some(Unwrap(init).data_type) ELSE dtype0
        dtype == IF IsNone(dtype1) THEN FLOAT ELSE Unwrap(dtype1)
        shape == IF IsNone(shape1) THEN <<Some(1)>> ELSE Unwrap(shape1)
    IN [shape |-> shape, dtype |-> dtype,
        size_bytes |-> GetTensorSizeBytes(shape, dtype)]

\* the record of one initializer
InitializerRecord(init) ==
    [shape |-> init.dims, dtype |-> init.data_type,
     size_bytes |-> GetTensorSizeBytes(init.dims, init.data_type)]

\* the placeholder record of a tensor only graph nodes name
FallbackRecord ==
    [shape |-> <<Some(1)>>, dtype |-> FLOAT,
     size_bytes |-> GetTensorSizeBytes(<<Some(1)>>, FLOAT)]

\* first loop: value_info + graph inputs + graph outputs
RECURSIVE CollectDeclared(_, _, _)
CollectDeclared(graph, vis, acc) ==
    IF vis = <<>> THEN acc
    ELSE CollectDeclared(graph, Tail(vis),
                         DictPut(acc, Head(vis).name, DeclaredRecord(graph, Head(vis))))

\* second loop: initializers
RECURSIVE CollectInitializers(_, _)
CollectInitializers(inits, acc) ==
    IF inits = <<>> THEN acc
    ELSE CollectInitializers(Tail(inits),
                             DictPut(acc, Head(inits).name, InitializerRecord(Head(inits))))

\* third loop, inner: the names of one node; empty names are skipped
CollectNamesNoFallback(names, acc) == acc
RECURSIVE CollectNames(_, _)
CollectNames(names, acc) ==
    IF names = <<>> THEN acc
    ELSE LET tensor_name == Head(names)
         IN IF tensor_name = "" THEN CollectNames(Tail(names), acc)
            ELSE IF ~DictHas(acc, tensor_name)
            THEN CollectNames(Tail(names), DictPut(acc, tensor_name, FallbackRecord))
            ELSE CollectNames(Tail(names), acc)

\* third loop, outer: every node's inputs then outputs
RECURSIVE CollectNodeTensors(_, _)
CollectNodeTensors(nodes_, acc) ==
    IF nodes_ = <<>> THEN acc
    ELSE CollectNodeTensors(Tail(nodes_),
                            CollectNames(Head(nodes_).input \o Head(nodes_).output, acc))

CollectTensorsOf(graph) ==
    CollectNodeTensors(graph.node,
        CollectInitializers(graph.initializer,
            CollectDeclared(graph, graph.value_info \o graph.input \o graph.output, <<>>)))

(***************************************************************************)
(* _layout_tensors.  platform_config is [memory_maps, processing_elements];*)
(* a memory map is [ranges], a range [device, base_address] with device an *)
(* Optional name (default "hbm0") and base_address an integer (the YAML    *)
(* loader turns 0x1000 into 4096; quoted strings are not modelled).        *)
(***************************************************************************)
\* range_info.get("device", "hbm0")
RangeDevice(range_info) ==
    IF IsNone(range_info.device) THEN "hbm0" ELSE Unwrap(range_info.device)

\* the loop that initialises device_addresses: the first range of a device wins
RECURSIVE InitDeviceAddresses(_, _)
InitDeviceAddresses(ranges, acc) ==
    IF ranges = <<>> THEN acc
    ELSE LET device == RangeDevice(Head(ranges))
             base == Head(ranges).base_address
         IN IF ~DictHas(acc, device)
            THEN InitDeviceAddresses(Tail(ranges), DictPut(acc, device, base))
            ELSE InitDeviceAddresses(Tail(ranges), acc)

\* sorted(tensors.items(), key=size_bytes, reverse=True): a stable sort, so
\* items of equal size keep their order
RECURSIVE InsertBySizeTiesReversed(_, _)
InsertBySizeTiesReversed(sorted, item) ==
    IF sorted = <<>> THEN <<item>>
    ELSE IF Head(sorted).val.size_bytes > item.val.size_bytes
    THEN <<Head(sorted)>> \o InsertBySizeTiesReversed(Tail(sorted), item)
    ELSE <<item>> \o sorted

RECURSIVE InsertBySize(_, _)
InsertBySize(sorted, item) ==
    IF sorted = <<>> THEN <<item>>
    ELSE IF Head(sorted).val.size_bytes >= item.val.size_bytes
    THEN <<Head(sorted)>> \o InsertBySize(Tail(sorted), item)
    ELSE <<item>> \o sorted

RECURSIVE SortedTensors(_)
SortedTensors(items) ==
    IF items = <<>> THEN <<>>
    ELSE InsertBySize(SortedTensors(SubSeq(items, 1, Len(items) - 1)),
                      items[Len(items)])

\* aligned_size_bytes = ((size_bytes + 63) // 64) * 64
AlignedSizeBytesTruncated(size_bytes) == (size_bytes \div ALIGN_BYTES) * ALIGN_BYTES
AlignedSizeBytesUnaligned(size_bytes) == size_bytes
AlignedSizeBytes(size_bytes) ==
    ((size_bytes + (ALIGN_BYTES - 1)) \div ALIGN_BYTES) * ALIGN_BYTES

\* current_device_index = (current_device_index + 1) % len(device_list)
NextDeviceIndex(index, n) == (index + 1) % n

(***************************************************************************)
(* The lowering loop of onnx_to_gwr_timetable                              *)
(***************************************************************************)
\* current_pe_index = (current_pe_index + 1) % len(pe_names)
NextPeIndexStuck(index, n) == index
NextPeIndex(index, n) == (index + 1) % n

\* _get_pe_sram_bytes: the first element of that name that declares sram_bytes
GetPeSramBytes(config, pe_name) ==
    LET pes == config.processing_elements
        hits == {i \in 1..Len(pes) : pes[i].name = pe_name /\ ~IsNone(pes[i].sram_bytes)}
    IN IF hits = {} THEN DEFAULT_SRAM_BYTES
       ELSE Unwrap(pes[CHOOSE i \in hits : \A j \in hits : i <= j].sram_bytes)

\* num_chunks = (total_size_bytes + sram_bytes - 1) // sram_bytes
NumChunksFloor(total_size_bytes, sram_bytes) == total_size_bytes \div sram_bytes
NumChunks(total_size_bytes, sram_bytes) ==
    (total_size_bytes + sram_bytes - 1) \div sram_bytes

\* _split_memory_op (sram_bytes # 0; the caller models the division by zero)
SplitMemoryOp(base_id, op_type, pe_name, base_addr, total_size_bytes, sram_bytes) ==
    LET num_chunks == NumChunks(total_size_bytes, sram_bytes)
    IN [i \in 1..num_chunks |->
          LET chunk_index == i - 1
              offset == chunk_index * sram_bytes
              rest == total_size_bytes - offset
              chunk_size_bytes == IF sram_bytes < rest THEN sram_bytes ELSE rest
          IN [id |-> IF num_chunks = 1 THEN base_id
                     ELSE base_id \o "_chunk_" \o ToString(chunk_index),
              kind |-> "memory",
              op |-> op_type,
              pe |-> pe_name,
              config |-> [addr |-> base_addr + offset,
                          num_bytes |-> chunk_size_bytes]]]

\* _calculate_num_ops (its two raises are modelled by ComputeError)
CalculateNumOps(tens, output_name) ==
    LET num_elements == GetTensorNumElements(DictGet(tens, output_name).shape)
    IN IF num_elements > 1 THEN num_elements ELSE 1

\* the exception, if any, the load or store loop raises: a missing key, or
\* the division by sram_bytes = 0 in _split_memory_op
RECURSIVE MemoryError(_, _, _, _)
MemoryError(names, tens, addrs, sram_bytes) ==
    IF names = <<>> THEN None
    ELSE IF Head(names) = "" THEN MemoryError(Tail(names), tens, addrs, sram_bytes)
    ELSE IF ~DictHas(addrs, Head(names)) \/ ~DictHas(tens, Head(names))
    THEN Some([type |-> "KeyError", msg |-> Head(names)])
    ELSE IF sram_bytes = 0
    THEN Some([type |-> "ZeroDivisionError",
               msg |-> "integer division or modulo by zero"])
    ELSE MemoryError(Tail(names), tens, addrs, sram_bytes)

\* the exception, if any, _calculate_num_ops raises in the compute loop
RECURSIVE ComputeError(_, _)
ComputeError(names, tens) ==
    IF names = <<>> THEN None
    ELSE IF Head(names) = "" THEN ComputeError(Tail(names), tens)
    ELSE IF ~DictHas(tens, Head(names))
    THEN Some([type |-> "ValueError",
               msg |-> "Output tensor '" \o Head(names) \o "' not found in tensors"])
    ELSE ComputeError(Tail(names), tens)

\* the chunk groups of the load loop (op_type "load", over node.input) or of
\* the store loop (op_type "store", over node.output): one per non-empty name,
\* its id carrying the slot's own index
MemoryGroupsRenumbered(node_name, op_type, names, pe_name, sram_bytes, tens, addrs) ==
    LET slots == {i \in 1..Len(names) : names[i] # ""}
        Slot(k) == CHOOSE i \in slots : Cardinality({j \in slots : j < i}) = k - 1
    IN [k \in 1..Cardinality(slots) |->
          LET i == Slot(k)
              base_id == node_name \o "_" \o op_type \o "_" \o ToString(k - 1)
          IN [index |-> k - 1,
              tensor |-> names[i],
              total |-> DictGet(tens, names[i]).size_bytes,
              ops |-> SplitMemoryOp(base_id, op_type, pe_name,
                                    DictGet(addrs, names[i]),
                                    DictGet(tens, names[i]).size_bytes,
                                    sram_bytes)]]
MemoryGroups(node_name, op_type, names, pe_name, sram_bytes, tens, addrs) ==
    LET slots == {i \in 1..Len(names) : names[i] # ""}
        Slot(k) == CHOOSE i \in slots : Cardinality({j \in slots : j < i}) = k - 1
    IN [k \in 1..Cardinality(slots) |->
          LET i == Slot(k)
              base_id == node_name \o "_" \o op_type \o "_" \o ToString(i - 1)
          IN [index |-> i - 1,
              tensor |-> names[i],
              total |-> DictGet(tens, names[i]).size_bytes,
              ops |-> SplitMemoryOp(base_id, op_type, pe_name,
                                    DictGet(addrs, names[i]),
                                    DictGet(tens, names[i]).size_bytes,
                                    sram_bytes)]]

RECURSIVE Flatten(_)
Flatten(groups) ==
    IF groups = <<>> THEN <<>> ELSE Head(groups).ops \o Flatten(Tail(groups))

\* max_num_ops over the non-empty outputs, starting from 1
RECURSIVE MaxNumOpsLast(_, _, _)
MaxNumOpsLast(names, tens, acc) ==
    IF names = <<>> THEN acc
    ELSE IF Head(names) = "" THEN MaxNumOpsLast(Tail(names), tens, acc)
    ELSE MaxNumOpsLast(Tail(names), tens, CalculateNumOps(tens, Head(names)))
RECURSIVE MaxNumOps(_, _, _)
MaxNumOps(names, tens, acc) ==
    IF names = <<>> THEN acc
    ELSE IF Head(names) = "" THEN MaxNumOps(Tail(names), tens, acc)
    ELSE LET num_ops == CalculateNumOps(tens, Head(names))
         IN MaxNumOps(Tail(names), tens, IF num_ops > acc THEN num_ops ELSE acc)

\* dtype_str: the dtype of the last non-empty output, "fp32" without one
RECURSIVE DtypeStr(_, _, _)
DtypeStr(names, tens, acc) ==
    IF names = <<>> THEN acc
    ELSE IF Head(names) = "" THEN DtypeStr(Tail(names), tens, acc)
    ELSE DtypeStr(Tail(names), tens, DtypeToString(DictGet(tens, Head(names)).dtype))

\* the compute record of a node
ComputeNode(node, pe_name, tens) ==
    [id |-> node.name \o "_compute",
     kind |-> "compute",
     op |-> MapOnnxOpToGwrOp(node.op_type),
     pe |-> pe_name,
     config |-> [dtype |-> DtypeStr(node.output, tens, "fp32"),
                 num_ops |-> MaxNumOps(node.output, tens, 1)]]

\* the edges of one node: every load chunk to the compute record, then the
\* compute record to every store chunk
EdgesOf(load_ops, compute_id, store_ops) ==
    [i \in 1..Len(load_ops) |->
        [from |-> load_ops[i].id, to |-> compute_id, kind |-> "data"]]
    \o
    [i \in 1..Len(store_ops) |->
        [from |-> compute_id, to |-> store_ops[i].id, kind |-> "data"]]

\* the exception one iteration of the loop raises, if any
NodeErrorUnnamedAccepted(node, node_index, sram_bytes, tens, addrs) ==
    IF ~IsNone(MemoryError(node.input, tens, addrs, sram_bytes))
    THEN MemoryError(node.input, tens, addrs, sram_bytes)
    ELSE IF ~IsNone(ComputeError(node.output, tens))
    THEN ComputeError(node.output, tens)
    ELSE MemoryError(node.output, tens, addrs, sram_bytes)
NodeError(node, node_index, sram_bytes, tens, addrs) ==
    IF node.name = ""
    THEN Some([type |-> "ValueError",
               msg |-> "Node at index " \o ToString(node_index)
                       \o " is missing a name"])
    ELSE IF ~IsNone(MemoryError(node.input, tens, addrs, sram_bytes))
    THEN MemoryError(node.input, tens, addrs, sram_bytes)
    ELSE IF ~IsNone(ComputeError(node.output, tens))
    THEN ComputeError(node.output, tens)
    ELSE MemoryError(node.output, tens, addrs, sram_bytes)

(***************************************************************************)
(* The inputs of a run                                                     *)
(***************************************************************************)
\* graph.value_info holds at most MaxDecl entries
MaxDecl == 2
\* graph.initializer holds at most MaxInit entries
MaxInit == 1
\* graph.node holds at most MaxOps nodes
MaxOps == 3
\* memory_maps[0].ranges holds at most MaxRanges ranges
MaxRanges == 2
\* processing_elements holds at most MaxPEs elements
MaxPEs == 2

SeqUpTo(S, n) == UNION {[1..k -> S] : k \in 0..n}

TypeFull ==
    [has_tensor_type |-> TRUE, has_shape |-> TRUE, dim |-> <<Some(4)>>,
     has_elem_type |-> TRUE, elem_type |-> FLOAT]
TypeShapeOnly ==
    [has_tensor_type |-> TRUE, has_shape |-> TRUE, dim |-> <<None, Some(3)>>,
     has_elem_type |-> FALSE, elem_type |-> 0]
TypeDtypeOnly ==
    [has_tensor_type |-> TRUE, has_shape |-> FALSE, dim |-> <<>>,
     has_elem_type |-> TRUE, elem_type |-> INT64]
TypeUnset ==
    [has_tensor_type |-> FALSE, has_shape |-> FALSE, dim |-> <<>>,
     has_elem_type |-> FALSE, elem_type |-> 0]
TypeProtos == {TypeFull, TypeShapeOnly, TypeDtypeOnly, TypeUnset}

ValueInfos ==
    [name : {"x"}, type : TypeProtos] \cup [name : {""}, type : {TypeFull, TypeUnset}]

Initializers ==
    {[name |-> "x", dims |-> <<Some(2)>>, data_type |-> INT8],
     [name |-> "x", dims |-> <<Some(4)>>, data_type |-> FLOAT],
     [name |-> "y", dims |-> <<Some(0), Some(5)>>, data_type |-> FLOAT16],
     [name |-> "", dims |-> <<>>, data_type |-> UINT8]}

GraphInputs == {<<>>, <<[name |-> "x", type |-> TypeFull]>>}
GraphOutputs == {<<>>, <<[name |-> "y", type |-> TypeDtypeOnly]>>}

Node(name, op_type, input, output) ==
    [name |-> name, op_type |-> op_type, input |-> input, output |-> output]

Nodes ==
    {Node("n", "Add", <<"x", "y">>, <<"z", "x">>),
     Node("n", "Relu", <<"", "x">>, <<"y", "">>),
     Node("m", "Erf", <<"z">>, <<>>),
     Node("", "Add", <<"x">>, <<"y">>)}

Ranges ==
    {[device |-> None, base_address |-> 4096],
     [device |-> Some("hbm0"), base_address |-> 8192],
     [device |-> Some("hbm1"), base_address |-> 8192]}

MemoryMaps == {<<>>} \cup {<<[ranges |-> r]>> : r \in SeqUpTo(Ranges, MaxRanges)}

ProcessingElements ==
    {[name |-> "pe0", sram_bytes |-> None],
     [name |-> "pe0", sram_bytes |-> Some(6)],
     [name |-> "pe1", sram_bytes |-> Some(0)]}

Graph(value_info, input, output, initializer, node) ==
    [graph |-> [value_info |-> value_info, input |-> input, output |-> output,
                initializer |-> initializer, node |-> node]]

Platform(memory_maps, processing_elements) ==
    [memory_maps |-> memory_maps, processing_elements |-> processing_elements]

\* one device at 0x1000
PlainMemoryMaps == <<[ranges |-> <<[device |-> None, base_address |-> 4096]>>]>>

(***************************************************************************)
(* The platform generator gen_fabric.py: the two generators of fabric      *)
(* cells and build_connections, which iterates them.  args holds the       *)
(* parsed arguments num_columns, num_rows, num_hbms, l1_kib and l2_kib; a  *)
(* generator object is the record of its attributes.                       *)
(***************************************************************************)
FABRIC_NAME == "fabric0"

\* create_name
CreateName(prefix, column, row) ==
    prefix \o "_" \o ToString(column) \o "_" \o ToString(row)

\* f"fabric.{FABRIC_NAME}@({column},{row})"
FabricPort(column, row) ==
    "fabric." \o FABRIC_NAME \o "@(" \o ToString(column) \o "," \o ToString(row) \o ")"

\* PeIdGen.__init__
PeIdGenInit(a) ==
    [num_columns |-> a.num_columns,
     num_rows |-> a.num_rows,
     pe_id |-> 0,
     max_pe_id |-> (a.num_columns * a.num_rows) - a.num_hbms]

\* PeIdGen.__next__: whether it yields, what it yields, and the object after
PeIdGenHasNext(gen) == gen.pe_id < gen.max_pe_id
PeIdGenYield(gen) == <<gen.pe_id \div gen.num_rows, gen.pe_id % gen.num_rows>>
PeIdGenAdvance(gen) == [gen EXCEPT !.pe_id = @ + 1]

\* HbmIdGen.__init__
HbmIdGenInitFromZero(a) ==
    [num_columns |-> a.num_columns,
     num_rows |-> a.num_rows,
     max_mem_id |-> a.num_columns * a.num_rows,
     mem_id |-> 0]
HbmIdGenInit(a) ==
    [num_columns |-> a.num_columns,
     num_rows |-> a.num_rows,
     max_mem_id |-> a.num_columns * a.num_rows,
     mem_id |-> (a.num_columns * a.num_rows) - a.num_hbms]

\* HbmIdGen.__next__
HbmIdGenHasNext(gen) == gen.mem_id < gen.max_mem_id
HbmIdGenYield(gen) == <<gen.mem_id \div gen.num_rows, gen.mem_id % gen.num_rows>>
HbmIdGenAdvance(gen) == [gen EXCEPT !.mem_id = @ + 1]

\* build_connections: the chain of entities from the PE of a cell to the fabric
ChainEntities(a, column, row) ==
    <<"pe." \o CreateName("pe", column, row)>>
    \o (IF a.l1_kib # 0 THEN <<"cache." \o CreateName("l1", column, row)>> ELSE <<>>)
    \o (IF a.l2_kib # 0 THEN <<"cache." \o CreateName("l2", column, row)>> ELSE <<>>)
    \o <<FabricPort(column, row)>>

\* build_connections: one connection per pair of neighbours of the chain
ChainConnections(entities) ==
    [i \in 1..(Len(entities) - 1) |-> [connect |-> <<entities[i], entities[i + 1]>>]]

\* build_connections: the connection of the i-th memory
HbmConnection(i, column, row) ==
    [connect |-> <<"mem.hbm" \o ToString(i), FabricPort(column, row)>>]

\* the fabric has at most MaxColumns columns
MaxColumns == 3
\* the fabric has at most MaxRows rows
MaxRows == 3

\* (l1_kib, l2_kib) as parse_args lets them through: no L2 without an L1
CacheSizes == {<<0, 0>>, <<32, 0>>, <<32, 256>>}

\* the parsed arguments; num_hbms is not validated against the fabric's size
FabricArgs ==
    UNION {{[num_columns |-> c, num_rows |-> r, num_hbms |-> h,
             l1_kib |-> cs[1], l2_kib |-> cs[2]]
               : h \in (0 - 1)..(c * r + 1), cs \in CacheSizes}
              : c \in 1..MaxColumns, r \in 1..MaxRows}

VARIABLES
    args,                   \* gen_fabric's parsed arguments
    fabric_pc,              \* where build_connections is
    pe_id_gen,              \* the PeIdGen object of the first loop
    hbm_id_gen,             \* the HbmIdGen object of the second loop, Optional
    pe_cells,               \* history: the cells PeIdGen has yielded
    hbm_cells,              \* history: the cells HbmIdGen has yielded
    connections             \* build_connections' list

fabric_vars == <<args, fabric_pc, pe_id_gen, hbm_id_gen, pe_cells, hbm_cells,
                 connections>>

\* the platform generator is not part of a run of the converter
FabricOff ==
    /\ args = None
    /\ fabric_pc = "off"
    /\ pe_id_gen = None
    /\ hbm_id_gen = None
    /\ pe_cells = <<>>
    /\ hbm_cells = <<>>
    /\ connections = <<>>

(***************************************************************************)
(* The state of a run of main()                                            *)
(***************************************************************************)
VARIABLES
    model,                  \* the loaded ONNX model
    platform_config,        \* the loaded platform YAML
    pc,                     \* where the run is
    tensors,                \* _collect_tensors' dict
    device_addresses,       \* _layout_tensors: device -> next free address
    sorted_tensors,         \* _layout_tensors: items by descending size
    tensor_addresses,       \* _layout_tensors' dict
    current_device_index,   \* _layout_tensors' round-robin cursor
    placements,             \* history: one entry per tensor placed
    current_pe_index,       \* the round-robin cursor over pe_names
    onnx_node_index,        \* the index of the next node to lower
    nodes,                  \* the timetable's nodes so far
    edges,                  \* the timetable's edges so far
    lowered,                \* history: one entry per node lowered
    raised,                 \* the exception in flight, Optional
    timetable,              \* onnx_to_gwr_timetable's return value, Optional
    output,                 \* the text main wrote or printed, Optional
    stderr,                 \* the messages main printed to stderr
    exit_code               \* main's return value, Optional

vars == <<model, platform_config, pc, tensors, device_addresses, sorted_tensors,
          tensor_addresses, current_device_index, placements, current_pe_index,
          onnx_node_index, nodes, edges, lowered, raised, timetable, output,
          stderr, exit_code, fabric_vars>>

layout_vars == <<device_addresses, sorted_tensors, tensor_addresses,
                 current_device_index, placements>>
lower_vars == <<current_pe_index, onnx_node_index, nodes, edges, lowered>>
main_vars == <<timetable, output, stderr, exit_code>>

\* graphs that vary what is declared, with one node naming x, y and z, on
\* one device and one element of default capacity
ResolverInputs ==
    \E vi \in SeqUpTo(ValueInfos, MaxDecl), gi \in GraphInputs,
       go \in GraphOutputs, it \in SeqUpTo(Initializers, MaxInit) :
        /\ model = Graph(vi, gi, go, it,
                         <<Node("n", "Add", <<"x", "">>, <<"y", "z">>)>>)
        /\ platform_config =
              Platform(PlainMemoryMaps, <<[name |-> "pe0", sram_bytes |-> None]>>)

\* platforms that vary the memory maps, under graphs of up to four tensors
AllocatorInputs ==
    \E vi \in SeqUpTo(ValueInfos, MaxDecl), mm \in MemoryMaps :
        /\ model = Graph(vi, <<>>, <<>>, <<>>,
                         <<Node("n", "Add", <<"x", "">>, <<"y", "z">>)>>)
        /\ platform_config =
              Platform(mm, <<[name |-> "pe0", sram_bytes |-> Some(6)]>>)

\* graphs that vary the nodes, on platforms that vary the processing elements
BuilderInputs ==
    \E nd \in SeqUpTo(Nodes, MaxOps), pes \in SeqUpTo(ProcessingElements, MaxPEs) :
        /\ model = Graph(<<[name |-> "x", type |-> TypeFull]>>, <<>>, <<>>,
                         <<[name |-> "y", dims |-> <<Some(0), Some(5)>>,
                            data_type |-> FLOAT16]>>, nd)
        /\ platform_config = Platform(PlainMemoryMaps, pes)

\* the single-operation graphs of the add0 scenario: one node add0 with one
\* input and one output of shape [4] fp32, declared in any of the graph's
\* lists, on one device at 0x1000 and one element of 1 MiB
ScenarioInputs ==
    \E out \in {"x", "y"}, vi \in SeqUpTo([name : {"x", "y"}, type : {TypeFull}], 2),
       gi \in GraphInputs,
       go \in {<<>>, <<[name |-> "y", type |-> TypeFull]>>},
       it \in {<<>>, <<[name |-> "x", dims |-> <<Some(4)>>, data_type |-> FLOAT]>>},
       sram \in {None, Some(DEFAULT_SRAM_BYTES)} :
        /\ model = Graph(vi, gi, go, it, <<Node("add0", "Add", <<"x">>, <<out>>)>>)
        /\ platform_config =
              Platform(PlainMemoryMaps, <<[name |-> "pe0", sram_bytes |-> sram]>>)

Init ==
    /\ \/ ResolverInputs
       \/ AllocatorInputs
       \/ BuilderInputs
       \/ ScenarioInputs
    /\ pc = "collect"
    /\ tensors = <<>>
    /\ device_addresses = <<>>
    /\ sorted_tensors = <<>>
    /\ tensor_addresses = <<>>
    /\ current_device_index = 0
    /\ placements = <<>>
    /\ current_pe_index = 0
    /\ onnx_node_index = 0
    /\ nodes = <<>>
    /\ edges = <<>>
    /\ lowered = <<>>
    /\ raised = None
    /\ timetable = None
    /\ output = None
    /\ stderr = <<>>
    /\ exit_code = None
    /\ FabricOff

ValueError(msg) == Some([type |-> "ValueError", msg |-> msg])

\* tensors = _collect_tensors(model)
CollectTensors ==
    /\ pc = "collect"
    /\ tensors' = CollectTensorsOf(model.graph)
    /\ pc' = "layout"
    /\ UNCHANGED <<fabric_vars, model, platform_config, layout_vars, lower_vars, raised, main_vars>>

\* _layout_tensors up to its allocation loop: the memory maps and ranges are
\* checked, device_addresses initialised and the tensors sorted
LayoutSetup ==
    /\ pc = "layout"
    /\ LET memory_maps == platform_config.memory_maps
       IN IF memory_maps = <<>>
          THEN /\ raised' = ValueError("No memory maps found in platform configuration")
               /\ pc' = "raised"
               /\ UNCHANGED <<device_addresses, sorted_tensors>>
          ELSE IF memory_maps[1].ranges = <<>>
          THEN /\ raised' = ValueError("No memory ranges found in platform configuration")
               /\ pc' = "raised"
               /\ UNCHANGED <<device_addresses, sorted_tensors>>
          ELSE /\ device_addresses' = InitDeviceAddresses(memory_maps[1].ranges, <<>>)
               /\ sorted_tensors' = SortedTensors(tensors)
               /\ pc' = "allocate"
               /\ UNCHANGED raised
    /\ UNCHANGED <<fabric_vars, model, platform_config, tensors, tensor_addresses,
                   current_device_index, placements, lower_vars, main_vars>>

\* one iteration of the allocation loop
Allocate ==
    /\ pc = "allocate"
    /\ Len(tensor_addresses) < Len(sorted_tensors)
    /\ LET item == sorted_tensors[Len(tensor_addresses) + 1]
           device_list == DictKeys(device_addresses)
           device == device_list[current_device_index + 1]
           addr == DictGet(device_addresses, device)
           aligned_size_bytes == AlignedSizeBytes(item.val.size_bytes)
       IN /\ current_device_index' =
                NextDeviceIndex(current_device_index, Len(device_list))
          /\ tensor_addresses' = DictPut(tensor_addresses, item.key, addr)
          /\ device_addresses' =
                DictPut(device_addresses, device, addr + aligned_size_bytes)
          /\ placements' = Append(placements,
                [tensor |-> item.key, device |-> device, addr |-> addr,
                 size_bytes |-> item.val.size_bytes])
    /\ UNCHANGED <<fabric_vars, model, platform_config, pc, tensors, sorted_tensors,
                   lower_vars, raised, main_vars>>

\* _layout_tensors returns; the processing elements are read
ReadProcessingElements ==
    /\ pc = "allocate"
    /\ Len(tensor_addresses) = Len(sorted_tensors)
    /\ IF platform_config.processing_elements = <<>>
       THEN /\ raised' = ValueError("No processing elements found in platform configuration")
            /\ pc' = "raised"
       ELSE /\ pc' = "lower"
            /\ UNCHANGED raised
    /\ UNCHANGED <<fabric_vars, model, platform_config, tensors, layout_vars, lower_vars, main_vars>>

\* one iteration of the loop over graph.node
LowerNode ==
    /\ pc = "lower"
    /\ onnx_node_index < Len(model.graph.node)
    /\ LET onnx_node == model.graph.node[onnx_node_index + 1]
           pes == platform_config.processing_elements
           pe_names == [i \in 1..Len(pes) |-> pes[i].name]
           pe_name == pe_names[current_pe_index + 1]
           sram_bytes == GetPeSramBytes(platform_config, pe_name)
           err == NodeError(onnx_node, onnx_node_index, sram_bytes,
                            tensors, tensor_addresses)
           loads == MemoryGroups(onnx_node.name, "load", onnx_node.input,
                                 pe_name, sram_bytes, tensors, tensor_addresses)
           stores == MemoryGroups(onnx_node.name, "store", onnx_node.output,
                                  pe_name, sram_bytes, tensors, tensor_addresses)
           compute == ComputeNode(onnx_node, pe_name, tensors)
           new_edges == EdgesOf(Flatten(loads), compute.id, Flatten(stores))
       IN IF ~IsNone(err)
          THEN /\ raised' = err
               /\ pc' = "raised"
               /\ UNCHANGED lower_vars
          ELSE /\ current_pe_index' = NextPeIndex(current_pe_index, Len(pe_names))
               /\ nodes' = nodes \o Flatten(loads) \o <<compute>> \o Flatten(stores)
               /\ edges' = edges \o new_edges
               /\ lowered' = Append(lowered,
                     [index |-> onnx_node_index,
                      pe_index |-> current_pe_index,
                      pe_name |-> pe_name,
                      sram_bytes |-> sram_bytes,
                      loads |-> loads,
                      compute |-> compute,
                      stores |-> stores,
                      edges |-> new_edges])
               /\ onnx_node_index' = onnx_node_index + 1
               /\ UNCHANGED <<pc, raised>>
    /\ UNCHANGED <<fabric_vars, model, platform_config, tensors, layout_vars, main_vars>>

\* return {"nodes": nodes, "edges": edges}
ReturnTimetable ==
    /\ pc = "lower"
    /\ onnx_node_index = Len(model.graph.node)
    /\ timetable' = Some([nodes |-> nodes, edges |-> edges])
    /\ pc' = "returned"
    /\ UNCHANGED <<fabric_vars, model, platform_config, tensors, layout_vars, lower_vars,
                   raised, output, stderr, exit_code>>

\* main: the timetable is dumped and written or printed; return 0
MainOutput ==
    /\ pc = "returned"
    /\ output' = timetable
    /\ exit_code' = Some(0)
    /\ pc' = "exit"
    /\ UNCHANGED <<fabric_vars, model, platform_config, tensors, layout_vars, lower_vars,
                   raised, timetable, stderr>>

\* main: except Exception as e: print to stderr; return 1
MainExcept ==
    /\ pc = "raised"
    /\ stderr' = Append(stderr, "Error converting ONNX to timetable: "
                                \o Unwrap(raised).msg)
    /\ exit_code' = Some(1)
    /\ raised' = None
    /\ pc' = "exit"
    /\ UNCHANGED <<fabric_vars, model, platform_config, tensors, layout_vars, lower_vars,
                   timetable, output>>

Next ==
    \/ CollectTensors
    \/ LayoutSetup
    \/ Allocate
    \/ ReadProcessingElements
    \/ LowerNode
    \/ ReturnTimetable
    \/ MainOutput
    \/ MainExcept

Spec == Init /\ [][Next]_vars

(***************************************************************************)
(* Properties                                                              *)
(***************************************************************************)
Range(seq) == {seq[i] : i \in 1..Len(seq)}

Succeeded == pc = "exit" /\ exit_code = Some(0)

\* the names under which the graph declares a tensor
DeclaredNames ==
    {vi.name : vi \in Range(model.graph.value_info) \cup Range(model.graph.input)
                      \cup Range(model.graph.output)}
InitializerNames == {it.name : it \in Range(model.graph.initializer)}
\* the names the nodes' input and output lists hold
NodeTensorNames ==
    UNION {Range(nd.input) \cup Range(nd.output) : nd \in Range(model.graph.node)}
ReferencedNames == DeclaredNames \cup InitializerNames \cup NodeTensorNames

RecordsOf(name) == {i \in 1..Len(tensors) : tensors[i].key = name}

\* C1: after _collect_tensors every non-empty tensor name of value_info, the
\* graph inputs and outputs, the initializers and the nodes' input and output
\* lists has exactly one record, of size_bytes >= 1; so no lookup of
\* tensors[name] or tensor_addresses[name] in the lowering loop misses its key.
C1_ResolverIsTotal ==
    /\ pc # "collect" =>
          \A name \in ReferencedNames \ {""} :
              /\ Cardinality(RecordsOf(name)) = 1
              /\ DictGet(tensors, name).size_bytes >= 1
    /\ pc = "lower" =>
          \A name \in NodeTensorNames \ {""} :
              DictHas(tensors, name) /\ DictHas(tensor_addresses, name)
    /\ ~IsNone(raised) => Unwrap(raised).type # "KeyError"

\* C1's case: a run succeeded whose node stored to a tensor that nothing declares
C1_Witness ==
    /\ Succeeded
    /\ \E l \in Range(lowered) : \E g \in Range(l.stores) :
          g.tensor \notin DeclaredNames \cup InitializerNames

SameDevicePairs ==
    {pq \in (1..Len(placements)) \X (1..Len(placements)) :
        pq[1] < pq[2] /\ placements[pq[1]].device = placements[pq[2]].device}

\* C2: two distinct tensors placed on the same device never get overlapping
\* byte ranges [addr, addr + size_bytes).
C2_NoOverlapOnDevice ==
    \A pq \in SameDevicePairs :
        LET a == placements[pq[1]]
            b == placements[pq[2]]
        IN a.addr + a.size_bytes <= b.addr \/ b.addr + b.size_bytes <= a.addr

\* C2's case: three tensors on one device
C2_Witness ==
    \E d \in {"hbm0", "hbm1"} :
        Cardinality({i \in 1..Len(placements) : placements[i].device = d}) >= 3

\* the least n with n * c >= s, for s >= 0 and c >= 1
CeilDiv(s, c) == CHOOSE n \in 0..s : n * c >= s /\ (n = 0 \/ (n - 1) * c < s)

RECURSIVE SumNumBytes(_)
SumNumBytes(ops) ==
    IF ops = <<>> THEN 0 ELSE Head(ops).config.num_bytes + SumNumBytes(Tail(ops))

\* the load and store groups the lowering loop has emitted, each with the
\* capacity it was split under
EmittedGroups ==
    UNION {{[group |-> g, sram_bytes |-> l.sram_bytes] :
               g \in Range(l.loads) \cup Range(l.stores)} : l \in Range(lowered)}

\* C3: a tensor of size S >= 1 split under capacity C >= 1 gives exactly
\* ceil(S/C) chunks, each of 1..C bytes, whose num_bytes sum to S: for every
\* load and store of every operation.
C3_ChunksCoverTensor ==
    \A e \in EmittedGroups :
        (e.group.total >= 1 /\ e.sram_bytes >= 1) =>
            /\ Len(e.group.ops) = CeilDiv(e.group.total, e.sram_bytes)
            /\ \A op \in Range(e.group.ops) :
                  op.config.num_bytes >= 1 /\ op.config.num_bytes <= e.sram_bytes
            /\ SumNumBytes(e.group.ops) = e.group.total

\* C3's case: a 16-byte tensor split under a capacity of 6 into 6 + 6 + 4, and
\* a tensor that fits into one chunk
C3_Witness ==
    /\ \E e \in EmittedGroups :
          /\ e.group.total = 16 /\ e.sram_bytes = 6
          /\ [i \in 1..Len(e.group.ops) |-> e.group.ops[i].config.num_bytes]
                = <<6, 6, 4>>
    /\ \E e \in EmittedGroups : Len(e.group.ops) = 1

\* ceil(a / b) for an integer a and b >= 1
CeilInt(a, b) == -((-a) \div b)

NumPEs == Len(platform_config.processing_elements)
NumOps == Len(model.graph.node)

\* C4: the operation at position j runs on the processing element at position
\* j mod K, and after a successful conversion of G operations element i has
\* received ceil((G - i) / K) of them.
C4_RoundRobinPEs ==
    /\ \A j \in 1..Len(lowered) :
          /\ lowered[j].index = j - 1
          /\ lowered[j].pe_index = (j - 1) % NumPEs
          /\ lowered[j].pe_name =
                platform_config.processing_elements[((j - 1) % NumPEs) + 1].name
          /\ lowered[j].compute.pe = lowered[j].pe_name
    /\ Succeeded =>
          /\ Len(lowered) = NumOps
          /\ \A i \in 0..(NumPEs - 1) :
                Cardinality({j \in 1..Len(lowered) : lowered[j].pe_index = i})
                    = CeilInt(NumOps - i, NumPEs)

\* C4's case: three operations lowered onto two elements, the cursor wrapping
C4_Witness ==
    /\ Succeeded
    /\ NumPEs = 2
    /\ NumOps = 3
    /\ lowered[3].pe_index = 0

\* the base address of the first range that names the device
FirstBase(device) ==
    LET ranges == platform_config.memory_maps[1].ranges
        first == CHOOSE i \in 1..Len(ranges) :
                    /\ RangeDevice(ranges[i]) = device
                    /\ \A j \in 1..(i - 1) : RangeDevice(ranges[j]) # device
    IN ranges[first].base_address

PlacementsOn(device) == {i \in 1..Len(placements) : placements[i].device = device}

\* the placements of one device that follow each other
SuccessivePairs ==
    {pq \in SameDevicePairs :
        \A k \in PlacementsOn(placements[pq[1]].device) : ~(pq[1] < k /\ k < pq[2])}

\* the cursors start at the base, and successive addresses on a device are
\* non-decreasing with a gap that is a multiple of 64 and >= the earlier size
C5_Addresses ==
    /\ \A i \in 1..Len(device_addresses) :
          LET device == device_addresses[i].key
          IN IF PlacementsOn(device) = {}
             THEN device_addresses[i].val = FirstBase(device)
             ELSE placements[CHOOSE k \in PlacementsOn(device) :
                                \A m \in PlacementsOn(device) : k <= m].addr
                     = FirstBase(device)
    /\ \A pq \in SuccessivePairs :
          LET a == placements[pq[1]]
              b == placements[pq[2]]
          IN /\ b.addr >= a.addr
             /\ (b.addr - a.addr) % 64 = 0
             /\ b.addr - a.addr >= a.size_bytes

\* once set, no cursor is removed, lowered or put back to its base
C5_CursorStep ==
    \A i \in 1..Len(device_addresses) :
        /\ DictHas(device_addresses', device_addresses[i].key)
        /\ DictGet(device_addresses', device_addresses[i].key)
              >= device_addresses[i].val

\* C5: during _layout_tensors each device's cursor starts at the device's base
\* address and never decreases nor is reset; the addresses given on a device
\* are non-decreasing in allocation order, each gap a multiple of 64 that is
\* >= the earlier tensor's size_bytes.
C5_MonotoneCursors == [](C5_Addresses) /\ [][C5_CursorStep]_vars

\* C5's case: a device holds three tensors, so two gaps have been taken
C5_Witness ==
    \E i \in 1..Len(device_addresses) :
        /\ Cardinality(PlacementsOn(device_addresses[i].key)) >= 3
        /\ device_addresses[i].val > FirstBase(device_addresses[i].key)

\* the timetable nodes one lowered operation emitted
NodesOf(l) == Flatten(l.loads) \o <<l.compute>> \o Flatten(l.stores)

IdsOf(ops) == {op.id : op \in Range(ops)}

\* the operations a node id belongs to
OwnersOf(id) == {j \in 1..Len(lowered) : id \in IdsOf(NodesOf(lowered[j]))}

\* C6: an operation's edges are exactly one data edge from each of its load
\* chunks to its compute record and one from its compute record to each of its
\* store chunks; no edge connects nodes emitted for two different operations,
\* and an operation's edges form an acyclic loads -> compute -> stores graph.
C6_EdgesStayInOperation ==
    /\ \A l \in Range(lowered) :
          /\ Range(l.edges) =
                {[from |-> id, to |-> l.compute.id, kind |-> "data"] :
                    id \in IdsOf(Flatten(l.loads))}
                \cup {[from |-> l.compute.id, to |-> id, kind |-> "data"] :
                         id \in IdsOf(Flatten(l.stores))}
          /\ Len(l.edges) = Len(Flatten(l.loads)) + Len(Flatten(l.stores))
          /\ IdsOf(Flatten(l.loads)) \cap IdsOf(Flatten(l.stores)) = {}
          /\ l.compute.id \notin IdsOf(Flatten(l.loads)) \cup IdsOf(Flatten(l.stores))
    /\ \A e \in Range(edges) :
          \A a \in OwnersOf(e.from), b \in OwnersOf(e.to) : a = b

AllNodesNamed == \A nd \in Range(model.graph.node) : nd.name # ""

\* C7: in the returned timetable no two nodes carry the same id, for any graph
\* whose operations all have non-empty names.
C7_NodeIdsUnique ==
    (~IsNone(timetable) /\ AllNodesNamed) =>
        \A i, j \in 1..Len(Unwrap(timetable).nodes) :
            i # j => Unwrap(timetable).nodes[i].id # Unwrap(timetable).nodes[j].id

\* the graph's declarations in the order _collect_tensors reads them
DeclaredList == model.graph.value_info \o model.graph.input \o model.graph.output

\* the declaration that decides a name: the last one of that name
LastDeclared(name) ==
    DeclaredList[CHOOSE i \in 1..Len(DeclaredList) :
                    /\ DeclaredList[i].name = name
                    /\ \A j \in (i + 1)..Len(DeclaredList) : DeclaredList[j].name # name]

\* C8: a name declared with both shape and dtype in its type that is also an
\* initializer with other dims or data_type keeps the declared shape and dtype
\* in its record (declared type, then initializer, then placeholder).
C8_DeclaredTypeWins ==
    pc # "collect" =>
        \A name \in DeclaredNames \cap InitializerNames :
            LET vi == LastDeclared(name)
            IN (/\ ~IsNone(ShapeFromTypeProto(vi.type))
                /\ ~IsNone(DtypeFromTypeProto(vi.type))
                /\ \E it \in Range(model.graph.initializer) :
                      /\ it.name = name
                      /\ \/ it.dims # Unwrap(ShapeFromTypeProto(vi.type))
                         \/ it.data_type # Unwrap(DtypeFromTypeProto(vi.type)))
               => /\ DictGet(tensors, name).shape = Unwrap(ShapeFromTypeProto(vi.type))
                  /\ DictGet(tensors, name).dtype = Unwrap(DtypeFromTypeProto(vi.type))

\* the add0 scenario: a single operation add0 with one input and one output,
\* both resolved to shape [4] fp32 and the graph's only tensors, on a platform
\* of one memory range at 0x1000 and one processing element of 1 MiB
Add0Scenario ==
    /\ pc # "collect"
    /\ Len(model.graph.node) = 1
    /\ LET nd == model.graph.node[1]
       IN /\ nd.name = "add0"
          /\ Len(nd.input) = 1 /\ nd.input[1] # ""
          /\ Len(nd.output) = 1 /\ nd.output[1] # ""
          /\ {tensors[i].key : i \in 1..Len(tensors)} = {nd.input[1], nd.output[1]}
          /\ \A i \in 1..Len(tensors) :
                tensors[i].val.shape = <<Some(4)>> /\ tensors[i].val.dtype = 1
    /\ Len(platform_config.memory_maps) = 1
    /\ Len(platform_config.memory_maps[1].ranges) = 1
    /\ platform_config.memory_maps[1].ranges[1].base_address = 4096
    /\ Len(platform_config.processing_elements) = 1
    /\ GetPeSramBytes(platform_config, platform_config.processing_elements[1].name)
          = 1048576

\* what every reading of the scenario's expected output shares: add0_load_0,
\* add0_compute, add0_store_0, the two edges, and 16 bytes moved each way
Add0Shape(tt) ==
    /\ [i \in 1..Len(tt.nodes) |-> tt.nodes[i].id]
          = <<"add0_load_0", "add0_compute", "add0_store_0">>
    /\ [i \in 1..Len(tt.nodes) |-> tt.nodes[i].kind]
          = <<"memory", "compute", "memory">>
    /\ tt.nodes[1].op = "load" /\ tt.nodes[3].op = "store"
    /\ tt.edges = <<[from |-> "add0_load_0", to |-> "add0_compute", kind |-> "data"],
                    [from |-> "add0_compute", to |-> "add0_store_0", kind |-> "data"]>>
    /\ tt.nodes[1].config.num_bytes = 16
    /\ tt.nodes[3].config.num_bytes = 16

\* C9: in the add0 scenario the timetable has exactly the 3 nodes add0_load_0,
\* add0_compute, add0_store_0 and the 2 edges load -> compute -> store, and
\* the load and the store are both at address 0x1000 with num_bytes = 16.
C9_Add0BothAtBase ==
    (Add0Scenario /\ pc = "exit") =>
        /\ exit_code = Some(0)
        /\ ~IsNone(output)
        /\ Add0Shape(Unwrap(output))
        /\ Unwrap(output).nodes[1].config.addr = 4096
        /\ Unwrap(output).nodes[3].config.addr = 4096

\* C9 as amended: the same nodes, edges and num_bytes; the tensor the resolver
\* recorded first is at 0x1000 and the other one 64 bytes on, at 0x1040, so
\* the load and the store share 0x1000 only when the operation's input and
\* output are one tensor.
C9_Add0Layout ==
    (Add0Scenario /\ pc = "exit") =>
        /\ exit_code = Some(0)
        /\ ~IsNone(output)
        /\ Add0Shape(Unwrap(output))
        /\ LET nd == model.graph.node[1]
               load == Unwrap(output).nodes[1].config.addr
               store == Unwrap(output).nodes[3].config.addr
           IN IF nd.input[1] = nd.output[1]
              THEN load = 4096 /\ store = 4096
              ELSE IF tensors[1].key = nd.input[1]
              THEN load = 4096 /\ store = 4160
              ELSE load = 4160 /\ store = 4096

\* C9's case: the scenario ran to its end with two tensors, the output
\* recorded before the input
C9_Witness ==
    /\ Add0Scenario
    /\ Succeeded
    /\ model.graph.node[1].input[1] # model.graph.node[1].output[1]
    /\ tensors[1].key = model.graph.node[1].output[1]
    /\ Unwrap(output).nodes[1].config.addr = 4160

\* the position of the first operation without a name
FirstUnnamed ==
    CHOOSE i \in 0..(NumOps - 1) :
        /\ model.graph.node[i + 1].name = ""
        /\ \A j \in 0..(i - 1) : model.graph.node[j + 1].name # ""

MissingNameReport ==
    <<"Error converting ONNX to timetable: Node at index "
        \o ToString(FirstUnnamed) \o " is missing a name">>

\* nothing of the timetable leaves the conversion, and main returns non-zero
NothingProduced ==
    /\ IsNone(timetable)
    /\ IsNone(output)
    /\ pc = "exit" => exit_code = Some(1)

\* C10: if any operation has an empty name the conversion fails with an error
\* naming the index of the first such operation, no timetable is returned or
\* written (not even the nodes built for earlier operations), and main exits
\* non-zero.
C10_UnnamedNodeReported ==
    ~AllNodesNamed =>
        /\ NothingProduced
        /\ pc = "exit" => stderr = MissingNameReport

\* the platform lets the lowering loop reach every operation: memory ranges
\* and processing elements exist and no element declares a capacity below 1
PlatformUsable ==
    /\ platform_config.memory_maps # <<>>
    /\ platform_config.memory_maps[1].ranges # <<>>
    /\ platform_config.processing_elements # <<>>
    /\ \A pe \in Range(platform_config.processing_elements) :
          IsNone(pe.sram_bytes) \/ Unwrap(pe.sram_bytes) >= 1

\* C10 as amended: with an unnamed operation no timetable is ever returned or
\* written and main exits non-zero; the error names the index of the first
\* unnamed operation when the platform has memory ranges, processing elements
\* and no capacity below 1 (otherwise an earlier error is the one reported).
C10_UnnamedNodeFatal ==
    ~AllNodesNamed =>
        /\ NothingProduced
        /\ (pc = "exit" /\ PlatformUsable) => stderr = MissingNameReport

\* C10's case: the second operation is the first unnamed one; the first was
\* lowered, its nodes and edges built, and the run ended with the report
C10_Witness ==
    /\ ~AllNodesNamed
    /\ PlatformUsable
    /\ pc = "exit"
    /\ FirstUnnamed = 1
    /\ nodes # <<>>
    /\ edges # <<>>
    /\ stderr = <<"Error converting ONNX to timetable: Node at index 1 is missing a name">>
    /\ exit_code = Some(1)

\* the positions (from 0) of the non-empty names of an input or output list
NamedSlots(names) == {i \in 0..(Len(names) - 1) : names[i + 1] # ""}

RECURSIVE ConcatNodes(_)
ConcatNodes(ls) ==
    IF ls = <<>> THEN <<>> ELSE NodesOf(Head(ls)) \o ConcatNodes(Tail(ls))

\* the ids a group may carry: the slot's id alone, or that id with _chunk_<k>
GroupIdsAt(node_name, op_type, slot, ops) ==
    LET base_id == node_name \o "_" \o op_type \o "_" \o ToString(slot)
    IN IF Len(ops) = 1 THEN ops[1].id = base_id
       ELSE \A k \in 1..Len(ops) :
               ops[k].id = base_id \o "_chunk_" \o ToString(k - 1)

\* the groups of one list: one non-empty group per non-empty name, in slot
\* order, each carrying the name's tensor and the slot's own index in its ids
GroupsMatchSlots(node_name, op_type, names, groups) ==
    /\ Len(groups) = Cardinality(NamedSlots(names))
    /\ {g.index : g \in Range(groups)} = NamedSlots(names)
    /\ \A a, b \in 1..Len(groups) : a < b => groups[a].index < groups[b].index
    /\ \A g \in Range(groups) :
          /\ g.ops # <<>>
          /\ g.tensor = names[g.index + 1]
          /\ \A op \in Range(g.ops) : op.kind = "memory" /\ op.op = op_type
          /\ GroupIdsAt(node_name, op_type, g.index, g.ops)

\* C11: an operation with N non-empty inputs and M non-empty outputs, lowered
\* under a capacity >= 1, emits exactly one compute record, one non-empty group
\* of load chunks per non-empty input and one non-empty group of store chunks
\* per non-empty output; empty slots emit nothing, and the ids keep the slot's
\* original index.
C11_GroupsPerNamedSlot ==
    /\ nodes = ConcatNodes(lowered)
    /\ \A l \in Range(lowered) :
          LET nd == model.graph.node[l.index + 1]
          IN l.sram_bytes >= 1 =>
                /\ GroupsMatchSlots(nd.name, "load", nd.input, l.loads)
                /\ GroupsMatchSlots(nd.name, "store", nd.output, l.stores)
                /\ Cardinality({i \in 1..Len(NodesOf(l)) :
                                   NodesOf(l)[i].kind = "compute"}) = 1
                /\ l.compute.id = nd.name \o "_compute"
                /\ Len(NodesOf(l)) =
                      Len(Flatten(l.loads)) + 1 + Len(Flatten(l.stores))

\* C11's case: an operation whose first input and second output are empty was
\* lowered: its only load is n_load_1 and its only store n_store_0
C11_Witness ==
    \E l \in Range(lowered) :
        LET nd == model.graph.node[l.index + 1]
        IN /\ nd.input = <<"", "x">>
           /\ nd.output = <<"y", "">>
           /\ l.sram_bytes >= 1
           /\ IdsOf(Flatten(l.loads)) = {"n_load_1"}
           /\ IdsOf(Flatten(l.stores)) = {"n_store_0"}

\* the ranges that name a device no earlier range names
FirstAppearances ==
    LET ranges == platform_config.memory_maps[1].ranges
    IN {i \in 1..Len(ranges) :
           \A j \in 1..(i - 1) : RangeDevice(ranges[j]) # RangeDevice(ranges[i])}

\* the k-th (from 0) distinct device name, in the order of first appearance
DistinctDevice(k) ==
    LET ranges == platform_config.memory_maps[1].ranges
        i == CHOOSE a \in FirstAppearances :
                Cardinality({b \in FirstAppearances : b < a}) = k
    IN RangeDevice(ranges[i])

\* the allocation loop has run to its end
LayoutDone == pc \in {"lower", "returned"} \/ Succeeded

\* C12: the tensors are placed in descending size_bytes, ties in the resolver's
\* insertion order; the tensor at position k of that order goes to device
\* k mod D of the distinct device names in first-appearance order (a repeated
\* device keeps its first base), whatever its size; every tensor is placed once.
C12_PlacementOrder ==
    /\ \A a, b \in 1..Len(placements) :
          a < b =>
             /\ placements[a].size_bytes >= placements[b].size_bytes
             /\ placements[a].tensor # placements[b].tensor
             /\ placements[a].size_bytes = placements[b].size_bytes =>
                   DictIndex(tensors, placements[a].tensor)
                      < DictIndex(tensors, placements[b].tensor)
    /\ \A k \in 1..Len(placements) :
          LET p == placements[k]
          IN /\ DictHas(tensors, p.tensor)
             /\ p.size_bytes = DictGet(tensors, p.tensor).size_bytes
             /\ p.device = DistinctDevice((k - 1) % Cardinality(FirstAppearances))
             /\ (\A j \in 1..(k - 1) : placements[j].device # p.device) =>
                   p.addr = FirstBase(p.device)
    /\ LayoutDone => Len(placements) = Len(tensors)

\* C12's case: three tensors, two of them of one size, were placed on two
\* devices, so that the third placement wraps around to the first device
C12_Witness ==
    /\ LayoutDone
    /\ Len(placements) = 3
    /\ Cardinality(FirstAppearances) = 2
    /\ placements[1].size_bytes > placements[2].size_bytes
    /\ placements[2].size_bytes = placements[3].size_bytes
    /\ placements[3].device = placements[1].device
    /\ placements[2].device # placements[1].device

\* the element count of a shape: the product of its dimensions, a dimension
\* that is unresolved or not positive counting as 1
RECURSIVE ElementCount(_)
ElementCount(shape) ==
    IF shape = <<>> THEN 1
    ELSE (IF IsNone(Head(shape)) THEN 1
          ELSE IF Unwrap(Head(shape)) < 1 THEN 1
          ELSE Unwrap(Head(shape))) * ElementCount(Tail(shape))

\* the element counts of the non-empty outputs of a node
OutputCounts(nd) ==
    {ElementCount(DictGet(tensors, nd.output[i + 1]).shape) : i \in NamedSlots(nd.output)}

\* the last non-empty output of a node that has one
LastNamedOutput(nd) ==
    nd.output[1 + CHOOSE i \in NamedSlots(nd.output) :
                     \A j \in NamedSlots(nd.output) : j <= i]

\* C13: the compute record's num_ops is the largest element count over the
\* operation's non-empty outputs (1 without any), and its dtype is the dtype
\* string of the last non-empty output ("fp32" without any).
C13_ComputeConfig ==
    \A l \in Range(lowered) :
        LET nd == model.graph.node[l.index + 1]
        IN IF NamedSlots(nd.output) = {}
           THEN /\ l.compute.config.num_ops = 1
                /\ l.compute.config.dtype = "fp32"
           ELSE /\ l.compute.config.num_ops \in OutputCounts(nd)
                /\ \A n \in OutputCounts(nd) : n <= l.compute.config.num_ops
                /\ l.compute.config.dtype =
                      DtypeToString(DictGet(tensors, LastNamedOutput(nd)).dtype)

\* C13's case: an operation with outputs y (5 elements, fp16) and z
\* (1 element, fp32) was lowered: num_ops comes from y, the dtype from z
C13_Witness ==
    \E l \in Range(lowered) :
        LET nd == model.graph.node[l.index + 1]
        IN /\ nd.output = <<"y", "z">>
           /\ DictGet(tensors, "y").dtype = FLOAT16
           /\ ElementCount(DictGet(tensors, "y").shape) = 5
           /\ ElementCount(DictGet(tensors, "z").shape) = 1
           /\ l.compute.config.num_ops = 5
           /\ l.compute.config.dtype = "fp32"

\* the capacity an element of the platform's list declares, 1 MiB without one
DeclaredCapacity(pe) ==
    IF IsNone(pe.sram_bytes) THEN 1048576 ELSE Unwrap(pe.sram_bytes)

\* the element at the position the round-robin assigned the operation to
AssignedElement(l) == platform_config.processing_elements[l.pe_index + 1]

\* C14: the capacity that chunks an operation's loads and stores is the one
\* declared on the element the operation was assigned to, and 1 MiB when that
\* element declares none, whatever another element of the same name declares.
C14_AssignedCapacity ==
    \A l \in Range(lowered) :
        /\ l.pe_name = AssignedElement(l).name
        /\ l.sram_bytes = DeclaredCapacity(AssignedElement(l))
        /\ \A g \in Range(l.loads) \cup Range(l.stores) :
              Len(g.ops) = CeilDiv(g.total, DeclaredCapacity(AssignedElement(l)))

\* C15: empty tensor names are ignored throughout: the resolver holds no
\* record under the empty name, wherever the graph has it, so the allocator
\* gives the empty name no address and advances no device cursor for it.
C15_EmptyNamesIgnored ==
    /\ ~DictHas(tensors, "")
    /\ ~DictHas(tensor_addresses, "")
    /\ \A p \in Range(placements) : p.tensor # ""

(***************************************************************************)
(* A run of build_connections of the platform generator                    *)
(***************************************************************************)
\* build_connections is entered with the parsed arguments and PeIdGen(args)
\* is constructed; the converter is not part of the run
FabricInit ==
    /\ args \in FabricArgs
    /\ fabric_pc = "pes"
    /\ pe_id_gen = PeIdGenInit(args)
    /\ hbm_id_gen = None
    /\ pe_cells = <<>>
    /\ hbm_cells = <<>>
    /\ connections = <<>>
    /\ model = Graph(<<>>, <<>>, <<>>, <<>>, <<>>)
    /\ platform_config = Platform(<<>>, <<>>)
    /\ pc = "off"
    /\ tensors = <<>>
    /\ device_addresses = <<>>
    /\ sorted_tensors = <<>>
    /\ tensor_addresses = <<>>
    /\ current_device_index = 0
    /\ placements = <<>>
    /\ current_pe_index = 0
    /\ onnx_node_index = 0
    /\ nodes = <<>>
    /\ edges = <<>>
    /\ lowered = <<>>
    /\ raised = None
    /\ timetable = None
    /\ output = None
    /\ stderr = <<>>
    /\ exit_code = None

converter_vars == <<model, platform_config, pc, tensors, layout_vars, lower_vars,
                    raised, main_vars>>

\* one iteration of the loop over PeIdGen(args)
PeLoopBody ==
    /\ fabric_pc = "pes"
    /\ PeIdGenHasNext(pe_id_gen)
    /\ LET cell == PeIdGenYield(pe_id_gen)
           entities == ChainEntities(args, cell[1], cell[2])
       IN /\ connections' = connections \o ChainConnections(entities)
          /\ pe_cells' = Append(pe_cells, cell)
    /\ pe_id_gen' = PeIdGenAdvance(pe_id_gen)
    /\ UNCHANGED <<args, fabric_pc, hbm_id_gen, hbm_cells, converter_vars>>

\* PeIdGen raises StopIteration; HbmIdGen(args) is constructed
PeLoopEnd ==
    /\ fabric_pc = "pes"
    /\ ~PeIdGenHasNext(pe_id_gen)
    /\ hbm_id_gen' = Some(HbmIdGenInit(args))
    /\ fabric_pc' = "hbms"
    /\ UNCHANGED <<args, pe_id_gen, pe_cells, hbm_cells, connections, converter_vars>>

\* one iteration of the loop over enumerate(HbmIdGen(args))
HbmLoopBody ==
    /\ fabric_pc = "hbms"
    /\ HbmIdGenHasNext(Unwrap(hbm_id_gen))
    /\ LET i == Len(hbm_cells)
           cell == HbmIdGenYield(Unwrap(hbm_id_gen))
       IN /\ connections' = Append(connections, HbmConnection(i, cell[1], cell[2]))
          /\ hbm_cells' = Append(hbm_cells, cell)
    /\ hbm_id_gen' = Some(HbmIdGenAdvance(Unwrap(hbm_id_gen)))
    /\ UNCHANGED <<args, fabric_pc, pe_id_gen, pe_cells, converter_vars>>

\* HbmIdGen raises StopIteration; build_connections returns
HbmLoopEnd ==
    /\ fabric_pc = "hbms"
    /\ ~HbmIdGenHasNext(Unwrap(hbm_id_gen))
    /\ fabric_pc' = "done"
    /\ UNCHANGED <<args, pe_id_gen, hbm_id_gen, pe_cells, hbm_cells, connections,
                   converter_vars>>

FabricNext ==
    \/ PeLoopBody
    \/ PeLoopEnd
    \/ HbmLoopBody
    \/ HbmLoopEnd

SpecFabric == FabricInit /\ [][FabricNext]_vars

\* the cells of the num_columns x num_rows fabric
FabricCells == (0..(args.num_columns - 1)) \X (0..(args.num_rows - 1))

\* num_columns >= 1, num_rows >= 1 and 0 <= num_hbms <= num_columns * num_rows
FabricArgsInRange ==
    /\ args.num_columns >= 1
    /\ args.num_rows >= 1
    /\ 0 <= args.num_hbms
    /\ args.num_hbms <= args.num_columns * args.num_rows

\* no cell occurs twice in the sequence
NoRepeats(cells) ==
    \A a, b \in 1..Len(cells) : a # b => cells[a] # cells[b]

\* the connections that end at the fabric port of the cell
ConnectionsAt(cell) ==
    {i \in 1..Len(connections) :
        connections[i].connect[2] = FabricPort(cell[1], cell[2])}

\* C16: with num_columns >= 1, num_rows >= 1 and 0 <= num_hbms <=
\* num_columns * num_rows, the cells PeIdGen yields and the cells HbmIdGen
\* yields are disjoint, no cell is yielded twice, and when both loops have
\* ended they cover every cell of the fabric exactly once: PeIdGen yielded
\* num_columns * num_rows - num_hbms cells and HbmIdGen the other num_hbms, so
\* every fabric port has one connection, of a PE's chain or of a memory.
C16_CellsPartitionFabric ==
    (fabric_pc # "off" /\ FabricArgsInRange) =>
        /\ NoRepeats(pe_cells)
        /\ NoRepeats(hbm_cells)
        /\ Range(pe_cells) \cap Range(hbm_cells) = {}
        /\ Range(pe_cells) \cup Range(hbm_cells) \subseteq FabricCells
        /\ fabric_pc = "done" =>
              /\ Range(pe_cells) \cup Range(hbm_cells) = FabricCells
              /\ Len(pe_cells) = args.num_columns * args.num_rows - args.num_hbms
              /\ Len(hbm_cells) = args.num_hbms
              /\ \A cell \in FabricCells : Cardinality(ConnectionsAt(cell)) = 1

\* C16's case: build_connections has returned for a 2 x 3 fabric with two
\* memories and L1 caches: four cells got a PE and the last two a memory
C16_Witness ==
    /\ fabric_pc = "done"
    /\ args.num_columns = 2
    /\ args.num_rows = 3
    /\ args.num_hbms = 2
    /\ args.l1_kib # 0
    /\ Len(pe_cells) = 4
    /\ hbm_cells = <<<<1, 1>>, <<1, 2>>>>

====
